---------------------------- MODULE Spec2Model ----------------------------
(***************************************************************************)
(* Model of docker/base/set_configs.py: the configuration bootstrapper     *)
(* that copies the files of a JSON manifest into place (ConfigFile.copy),  *)
(* verifies them (ConfigFile.check) and applies the copy strategy          *)
(* (execute_config_strategy).                                              *)
(*                                                                         *)
(* A path is a sequence of components: "/etc/app" is <<"etc","app">> and   *)
(* "/etc/app/" is <<"etc","app","">> (the empty last component is the      *)
(* trailing separator).  The filesystem is a function from the canonical   *)
(* paths that exist to their inode: kind, content, uid, gid, mode.         *)
(***************************************************************************)
EXTENDS Integers, Sequences, FiniteSets, TLC

(* ------------------------------ bounds -------------------------------- *)

\* invocations of the program (main) in one behaviour
MaxRuns == 2

\* independent modifications of installed files in one behaviour
MaxTamper == 1

(* --------------------------- errors ----------------------------------- *)

NoError == "none"

(* --------------------------- os.path ---------------------------------- *)

Root == <<>>

Last(p) == p[Len(p)]

Front(p) == SubSeq(p, 1, Len(p) - 1)

\* dest.endswith(os.sep)
EndsWithSep(p) == Len(p) > 0 /\ Last(p) = ""

\* os.path.dirname: everything before the last separator
DirName(p) == IF Len(p) = 0 THEN Root ELSE Front(p)

\* os.path.basename: everything after the last separator
BaseName(p) == IF Len(p) = 0 THEN "" ELSE Last(p)

\* os.path.join(a, b) for a relative b: one separator between the two
Join(a, b) == IF EndsWithSep(a) THEN Front(a) \o b ELSE a \o b

IsPrefix(a, b) == Len(a) <= Len(b) /\ SubSeq(b, 1, Len(a)) = a

\* the path `rel` below `old`, moved below `new`
Rebase(p, old, new) == new \o SubSeq(p, Len(old) + 1, Len(p))

RECURSIVE UpDirs(_)
UpDirs(n) == IF n = 0 THEN <<>> ELSE <<"..">> \o UpDirs(n - 1)

\* os.path.relpath(path, start) for a start that lies at or below path:
\* one ".." for every component of start below path
RelPath(path, start) == UpDirs(Len(start) - Len(path))

(* ------------------------ path resolution ----------------------------- *)

IsDirNode(fs, c) == c \in DOMAIN fs /\ fs[c].kind = "dir"

IsFileNode(fs, c) == c \in DOMAIN fs /\ fs[c].kind = "file"

\* The kernel's path walk: every component is looked up in the directory
\* reached so far, which must exist; "" (trailing separator) stays there and
\* ".." goes to its parent.  ok is FALSE when a directory on the way is
\* missing or is not a directory; path is the canonical path reached (which
\* itself may or may not exist).
RECURSIVE Walk(_, _, _, _)
Walk(fs, cur, p, i) ==
    IF i > Len(p) THEN [ok |-> TRUE, path |-> cur]
    ELSE IF ~IsDirNode(fs, cur) THEN [ok |-> FALSE, path |-> cur]
    ELSE IF p[i] = "" THEN Walk(fs, cur, p, i + 1)
    ELSE IF p[i] = ".." THEN Walk(fs, DirName(cur), p, i + 1)
    ELSE Walk(fs, Append(cur, p[i]), p, i + 1)

Resolve(fs, p) == Walk(fs, Root, p, 1)

\* os.path.exists
Exists(fs, p) == Resolve(fs, p).ok /\ Resolve(fs, p).path \in DOMAIN fs

\* os.path.isdir
IsDir(fs, p) == Resolve(fs, p).ok /\ IsDirNode(fs, Resolve(fs, p).path)

\* os.stat(p) of an existing path
Stat(fs, p) == fs[Resolve(fs, p).path]

(* ------------------------ users and groups ---------------------------- *)

\* /etc/passwd: user "web" has primary group "www"; the others have a
\* primary group of their own name
Passwd ==
    { [name |-> "root", uid |-> 0, gid |-> 0],
      [name |-> "app", uid |-> 1, gid |-> 1],
      [name |-> "web", uid |-> 2, gid |-> 3] }

\* /etc/group
Group ==
    { [name |-> "root", gid |-> 0],
      [name |-> "app", gid |-> 1],
      [name |-> "www", gid |-> 3] }

\* pwd.getpwnam(name)
GetPwNam(name) == CHOOSE u \in Passwd : u.name = name

\* pwd.getpwuid(uid).pw_name
GetPwUidName(uid) == (CHOOSE u \in Passwd : u.uid = uid).name

\* grp.getgrgid(gid).gr_name
GetGrGidName(gid) == (CHOOSE g \in Group : g.gid = gid).name

(* ------------------------ permission strings -------------------------- *)

\* a permission string is the sequence of its characters
DigitVal(c) ==
    CASE c = "0" -> 0 [] c = "1" -> 1 [] c = "2" -> 2 [] c = "3" -> 3
      [] c = "4" -> 4 [] c = "5" -> 5 [] c = "6" -> 6 [] c = "7" -> 7
      [] c = "8" -> 8 [] c = "9" -> 9

DigitChar(d) == <<"0", "1", "2", "3", "4", "5", "6", "7">>[d + 1]

RECURSIVE ToInt(_, _)
ToInt(s, base) ==
    IF Len(s) = 0 THEN 0
    ELSE ToInt(Front(s), base) * base + DigitVal(Last(s))

\* int(perm, 0): a leading "0" makes the literal octal, else it is decimal
ParsePerm(perm) ==
    IF Len(perm) > 1 /\ perm[1] = "0" THEN ToInt(Tail(perm), 8)
    ELSE ToInt(perm, 10)

RECURSIVE OctDigits(_)
OctDigits(n) ==
    IF n = 0 THEN <<>> ELSE Append(OctDigits(n \div 8), DigitChar(n % 8))

\* oct(n): the octal digits after a leading "0"
Oct(n) == <<"0">> \o OctDigits(n)

\* s[-4:]
LastFour(s) == IF Len(s) <= 4 THEN s ELSE SubSeq(s, Len(s) - 3, Len(s))

\* the S_IFMT bits of st_mode
S_IFREG == 8 * 8 * 8 * 8 * 8
S_IFDIR == 4 * 8 * 8 * 8 * 8

\* the bits chmod sets: S_IMODE
S_IMODE(m) == m % (8 * 8 * 8 * 8)

StMode(node) == (IF node.kind = "dir" THEN S_IFDIR ELSE S_IFREG) + node.mode

\* oct(file_stat.st_mode)[-4:]
ActualPerm(node) == LastFour(Oct(StMode(node)))

\* modes of what the process creates, with umask 022
NewDirMode == ParsePerm(<<"0", "7", "5", "5">>)
NewFileMode == ParsePerm(<<"0", "6", "4", "4">>)

(* ---------------------- filesystem operations ------------------------- *)

Canon(p) == SelectSeq(p, LAMBDA x : x # "")

Without(fs, gone) == [q \in (DOMAIN fs \ gone) |-> fs[q]]

Overlay(fs, new) == [q \in (DOMAIN fs \cup DOMAIN new) |->
                        IF q \in DOMAIN new THEN new[q] ELSE fs[q]]

Below(fs, c) == {q \in DOMAIN fs : IsPrefix(c, q)}

NewDir == [kind |-> "dir", content |-> "", uid |-> 0, gid |-> 0,
           mode |-> NewDirMode]

\* shutil.rmtree(p) of an existing directory
RmTree(fs, p) == Without(fs, Below(fs, Resolve(fs, p).path))

\* os.remove(p) of an existing file
OsRemove(fs, p) == Without(fs, {Resolve(fs, p).path})

Prefixes(c) == {SubSeq(c, 1, n) : n \in 0..Len(c)}

\* os.makedirs(p): EEXIST when p exists, ENOTDIR when a file is in the way
MakeDirs(fs, p) ==
    LET c == Canon(p) IN
    IF c \in DOMAIN fs \/ \E q \in Prefixes(c) : IsFileNode(fs, q)
    THEN [fs |-> fs, err |-> "OSError"]
    ELSE [fs |-> Overlay(fs, [q \in (Prefixes(c) \ DOMAIN fs) |-> NewDir]),
          err |-> NoError]

\* open(p, 'w') then write(content): creates the file or truncates it
WriteFile(fs, p, content) ==
    LET r == Resolve(fs, p) IN
    IF ~r.ok \/ IsDirNode(fs, r.path) \/ EndsWithSep(p)
    THEN [fs |-> fs, err |-> "IOError"]
    ELSE IF r.path \in DOMAIN fs
    THEN [fs |-> [fs EXCEPT ![r.path].content = content], err |-> NoError]
    ELSE [fs |-> Overlay(fs, [q \in {r.path} |->
                    [kind |-> "file", content |-> content, uid |-> 0,
                     gid |-> 0, mode |-> NewFileMode]]),
          err |-> NoError]

\* os.chmod(p, mode) of an existing path
Chmod(fs, p, mode) == [fs EXCEPT ![Resolve(fs, p).path].mode = S_IMODE(mode)]

\* os.chown(p, uid, gid) of an existing path
Chown(fs, p, uid, gid) ==
    [fs EXCEPT ![Resolve(fs, p).path].uid = uid,
               ![Resolve(fs, p).path].gid = gid]

\* shutil.copy(src, dst): into dst when dst is a directory; copyfile, then
\* copymode
ShutilCopy(fs, src, dst) ==
    LET target == IF IsDir(fs, dst) THEN Join(dst, <<BaseName(src)>>) ELSE dst
        w == WriteFile(fs, target, Stat(fs, src).content)
    IN  IF IsDir(fs, src) THEN [fs |-> fs, err |-> "IOError"]
        ELSE IF w.err # NoError THEN w
        ELSE [fs |-> Chmod(w.fs, target, Stat(fs, src).mode), err |-> NoError]

\* shutil.copytree(src, dst): dst must not exist; the tree below src is
\* recreated below dst with the content and mode of each item (copy2,
\* copystat), owned by the process
CopyTree(fs, src, dst) ==
    LET s == Resolve(fs, src).path
        d == Canon(dst)
        m == MakeDirs(fs, dst)
    IN  IF m.err # NoError THEN m
        ELSE [fs |-> Overlay(m.fs,
                  [q \in {Rebase(x, s, d) : x \in Below(fs, s)} |->
                      LET x == CHOOSE y \in Below(fs, s) : Rebase(y, s, d) = q
                      IN  [fs[x] EXCEPT !.uid = 0, !.gid = 0]]),
              err |-> NoError]

(* ------------------------------ glob ---------------------------------- *)

\* glob.has_magic: the wildcard component "*"
HasMagic(pattern) == \E i \in 1..Len(pattern) : pattern[i] = "*"

\* glob.glob(pattern).  A pattern without magic yields itself when it
\* exists.  A pattern whose basename is "*" yields the entries of its
\* directory; `order` is the order in which os.listdir names them.
Glob(fs, pattern, order) ==
    IF ~HasMagic(pattern)
    THEN IF Exists(fs, pattern) THEN <<pattern>> ELSE <<>>
    ELSE IF ~IsDir(fs, DirName(pattern)) THEN <<>>
    ELSE LET dir == Resolve(fs, DirName(pattern)).path
             names == SelectSeq(order, LAMBDA n : Append(dir, n) \in DOMAIN fs)
         IN  [i \in 1..Len(names) |-> Append(dir, names[i])]

(* ---------------------------- ConfigFile ------------------------------ *)

\* ConfigFile(**data): optional defaults to False
ConfigFile(data) ==
    [source |-> data.source, dest |-> data.dest, owner |-> data.owner,
     perm |-> data.perm,
     optional |-> IF "optional" \in DOMAIN data THEN data.optional ELSE FALSE]

\* ConfigFile._set_permission: chown to the owner's uid and primary gid,
\* chmod to the parsed perm
SetPermission(cf, fs, path) ==
    LET user == GetPwNam(cf.owner)
    IN  Chmod(Chown(fs, path, user.uid, user.gid), path, ParsePerm(cf.perm))

RECURSIVE SetPermissionAll(_, _, _)
SetPermissionAll(cf, fs, paths) ==
    IF paths = {} THEN fs
    ELSE LET q == CHOOSE x \in paths : TRUE
         IN  SetPermissionAll(cf, SetPermission(cf, fs, q), paths \ {q})

\* ConfigFile._copy_dir: copytree, then _set_permission on every directory
\* and file that os.walk(dest) lists, which is everything below dest but
\* not dest itself
CopyDir(cf, fs, source, dest) ==
    LET t == CopyTree(fs, source, dest)
    IN  IF t.err # NoError THEN t
        ELSE [fs |-> SetPermissionAll(cf, t.fs,
                        Below(t.fs, Canon(dest)) \ {Canon(dest)}),
              err |-> NoError]

\* ConfigFile._copy_file: a dest with a trailing separator names the folder
\* the source is copied into
CopyFile(cf, fs, source, dest) ==
    LET target == IF EndsWithSep(dest)
                  THEN Join(dest, <<BaseName(source)>>) ELSE dest
        c == ShutilCopy(fs, source, target)
    IN  IF c.err # NoError THEN c
        ELSE [fs |-> SetPermission(cf, c.fs, target), err |-> NoError]

\* the loop of ConfigFile.copy over the matched sources, from the i-th on
RECURSIVE CopySources(_, _, _, _)
CopySources(cf, fs, sources, i) ==
    IF i > Len(sources) THEN [fs |-> fs, err |-> NoError]
    ELSE IF cf.optional /\ ~Exists(fs, sources[i])
    THEN CopySources(cf, fs, sources, i + 1)
    ELSE LET r == IF IsDir(fs, sources[i])
                  THEN CopyDir(cf, fs, sources[i], cf.dest)
                  ELSE CopyFile(cf, fs, sources[i], cf.dest)
         IN  IF r.err # NoError THEN r
             ELSE CopySources(cf, r.fs, sources, i + 1)

\* the first statement of ConfigFile.copy: an existing dest is removed, else
\* a missing parent directory of dest is created
PrepareDest(cf, fs) ==
    IF Exists(fs, cf.dest)
    THEN [fs |-> IF IsDir(fs, cf.dest) THEN RmTree(fs, cf.dest)
                 ELSE OsRemove(fs, cf.dest),
          err |-> NoError]
    ELSE IF ~Exists(fs, DirName(cf.dest))
    THEN MakeDirs(fs, DirName(cf.dest))
    ELSE [fs |-> fs, err |-> NoError]

\* ConfigFile.copy with the required-source test left out: a missing source
\* is skipped whether the entry is optional or not
Copy_MissingIsSkipped(cf, fs, order) ==
    LET p == PrepareDest(cf, fs)
        sources == Glob(p.fs, cf.source, order)
        missing == sources = <<>> \/
                   (Len(sources) = 1 /\ ~Exists(p.fs, sources[1]))
    IN  IF p.err # NoError THEN p
        ELSE IF missing THEN [fs |-> p.fs, err |-> NoError]
        ELSE CopySources(cf, p.fs, sources, 1)

\* ConfigFile.copy
Copy(cf, fs, order) ==
    LET p == PrepareDest(cf, fs)
        sources == Glob(p.fs, cf.source, order)
        missing == sources = <<>> \/
                   (Len(sources) = 1 /\ ~Exists(p.fs, sources[1]))
    IN  IF p.err # NoError THEN p
        ELSE IF ~cf.optional /\ missing
        THEN [fs |-> p.fs, err |-> "SourceFileNotFound"]
        ELSE IF cf.optional /\ missing
        THEN [fs |-> p.fs, err |-> NoError]
        ELSE CopySources(cf, p.fs, sources, 1)

\* ConfigFile._cmp_file: "bad" (a False return), "ok" (True), or the error
\* that open() raises
CmpFile(cf, fs, source, dest) ==
    IF Exists(fs, source) /\ ~cf.optional /\ ~Exists(fs, dest) THEN "bad"
    ELSE IF ~Exists(fs, source) \/ IsDir(fs, source) THEN "IOError"
    ELSE IF ~Exists(fs, dest) \/ IsDir(fs, dest) THEN "IOError"
    ELSE IF Stat(fs, source).content # Stat(fs, dest).content THEN "bad"
    ELSE IF cf.perm # ActualPerm(Stat(fs, dest)) THEN "bad"
    ELSE IF GetPwUidName(Stat(fs, dest).uid) # cf.owner THEN "bad"
    ELSE IF GetGrGidName(Stat(fs, dest).gid) # cf.owner THEN "bad"
    ELSE "ok"

\* the destination ConfigFile._cmp_dir computes for an item of the source
\* tree: os.path.join(dest, os.path.relpath(source, full_path))
DestFullPath(source, dest, full_path) == Join(dest, RelPath(source, full_path))

\* the per-directory check of _cmp_dir; os.stat raises OSError when the
\* computed destination does not exist
CmpSubDir(cf, fs, source, dest, full_path) ==
    LET d == DestFullPath(source, dest, full_path)
    IN  IF ~Exists(fs, d) THEN "OSError"
        ELSE IF cf.perm # ActualPerm(Stat(fs, d)) THEN "bad"
        ELSE "ok"

\* the items os.walk(source) visits, in its order: top-down, and in every
\* directory its sub-directories before its files
RECURSIVE WalkItems(_, _)
WalkItems(fs, roots) ==
    IF roots = <<>> THEN <<>>
    ELSE LET root == Head(roots)
             kids == {q \in DOMAIN fs : Len(q) = Len(root) + 1 /\ IsPrefix(root, q)}
             SeqOf(S) == LET RECURSIVE Mk(_)
                             Mk(T) == IF T = {} THEN <<>>
                                      ELSE LET x == CHOOSE y \in T : TRUE
                                           IN  <<x>> \o Mk(T \ {x})
                         IN  Mk(S)
             dirs == SeqOf({q \in kids : fs[q].kind = "dir"})
             files == SeqOf({q \in kids : fs[q].kind = "file"})
         IN  dirs \o files \o WalkItems(fs, dirs \o Tail(roots))

\* ConfigFile._cmp_dir: the first item that is bad or raises decides
RECURSIVE CmpItems(_, _, _, _, _, _)
CmpItems(cf, fs, source, dest, items, i) ==
    IF i > Len(items) THEN "ok"
    ELSE LET r == IF fs[items[i]].kind = "dir"
                  THEN CmpSubDir(cf, fs, source, dest, items[i])
                  ELSE CmpFile(cf, fs, items[i],
                               DestFullPath(source, dest, items[i]))
         IN  IF r # "ok" THEN r
             ELSE CmpItems(cf, fs, source, dest, items, i + 1)

CmpDir(cf, fs, source, dest) ==
    CmpItems(cf, fs, source, dest,
             WalkItems(fs, <<Resolve(fs, source).path>>), 1)

\* one iteration of the loop of ConfigFile.check: a directory whose
\* _cmp_dir is True falls through to the elif, _cmp_file of the directory
CheckSource(cf, fs, source) ==
    LET d == IF IsDir(fs, source) THEN CmpDir(cf, fs, source, cf.dest)
             ELSE "ok"
    IN  IF IsDir(fs, source) /\ d # "ok" THEN d
        ELSE CmpFile(cf, fs, source, cf.dest)

\* the loop of ConfigFile.check: an error ends it, else the bad sources
\* are collected
RECURSIVE CheckSources(_, _, _, _, _)
CheckSources(cf, fs, sources, i, bad) ==
    IF i > Len(sources)
    THEN IF bad # <<>> THEN "ConfigFileBadState" ELSE NoError
    ELSE LET r == CheckSource(cf, fs, sources[i])
         IN  IF r \notin {"ok", "bad"} THEN r
             ELSE CheckSources(cf, fs, sources, i + 1,
                               IF r = "bad" THEN Append(bad, sources[i]) ELSE bad)

\* ConfigFile.check: the error it raises, or NoError
Check(cf, fs, order) ==
    LET sources == Glob(fs, cf.source, order)
    IN  IF sources = <<>> /\ ~cf.optional THEN "SourceFileNotFound"
        ELSE CheckSources(cf, fs, sources, 1, <<>>)

(* ----------------------------- manifest ------------------------------- *)

RequiredKeys == {"source", "dest", "owner", "perm"}

\* config.get('config_files', list())
ConfigFiles(config) ==
    IF "config_files" \in DOMAIN config THEN config.config_files ELSE <<>>

\* validate_config with the loop over config_files ended after the first
\* entry
ValidateConfig_FirstEntryOnly(config) ==
    IF "command" \notin DOMAIN config THEN "ConfigFileError"
    ELSE IF Len(ConfigFiles(config)) > 0
            /\ ~(RequiredKeys \subseteq DOMAIN ConfigFiles(config)[1])
    THEN "ConfigFileError"
    ELSE NoError

\* validate_config: the error it raises, or NoError
ValidateConfig(config) ==
    IF "command" \notin DOMAIN config THEN "ConfigFileError"
    ELSE IF \E i \in 1..Len(ConfigFiles(config)) :
                ~(RequiredKeys \subseteq DOMAIN ConfigFiles(config)[i])
    THEN "ConfigFileError"
    ELSE NoError

(* ----------------------------- load_config --------------------------- *)

\* A text that json.loads is given, by its form: "empty" (the empty
\* string), "garbage" (not JSON), "null" (the JSON null) or "object" (the
\* JSON text of the manifest `value`).
Text(form) == [form |-> form, value |-> [unloaded |-> TRUE]]

JsonText(manifest) == [form |-> "object", value |-> manifest]

\* os.environ.get("KOLLA_CONFIG") when the variable is not set
EnvUnset == Text("unset")

\* no manifest has been loaded
Unloaded == [unloaded |-> TRUE]

\* json.loads: ValueError for a text that is not JSON, the empty string
\* included; None for null
JsonLoads(text) ==
    IF text.form = "object"
    THEN [err |-> NoError, none |-> FALSE, value |-> text.value]
    ELSE IF text.form = "null"
    THEN [err |-> NoError, none |-> TRUE, value |-> Unloaded]
    ELSE [err |-> "ValueError", none |-> FALSE, value |-> Unloaded]

\* load_from_env: None when the variable is not set, else json.loads of
\* its value, whatever the value is
LoadFromEnv(env) ==
    IF env.form = "unset"
    THEN [err |-> NoError, none |-> TRUE, value |-> Unloaded]
    ELSE JsonLoads(env)

\* load_from_file returning None for a file it cannot open
LoadFromFile_IOErrorSwallowed(file) ==
    IF file.state # "readable"
    THEN [err |-> NoError, none |-> TRUE, value |-> Unloaded]
    ELSE JsonLoads(file.text)

\* load_from_file: open() raises IOError for a file that is missing or
\* cannot be read; json.load raises ValueError
LoadFromFile(file) ==
    IF file.state # "readable"
    THEN [err |-> "IOError", none |-> FALSE, value |-> Unloaded]
    ELSE JsonLoads(file.text)

\* load_config up to validate_config: the manifest, the exception raised,
\* where the manifest came from and whether the file was opened; a None
\* from the file makes validate_config raise TypeError
LoadConfig(env, file) ==
    LET e == LoadFromEnv(env)
        f == LoadFromFile(file)
    IN  IF e.err # NoError
        THEN [err |-> e.err, config |-> Unloaded, from |-> "env", file_read |-> FALSE]
        ELSE IF ~e.none
        THEN [err |-> NoError, config |-> e.value, from |-> "env", file_read |-> FALSE]
        ELSE IF f.err # NoError \/ f.none
        THEN [err |-> IF f.none THEN "TypeError" ELSE f.err,
              config |-> Unloaded, from |-> "file", file_read |-> TRUE]
        ELSE [err |-> NoError, config |-> f.value, from |-> "file", file_read |-> TRUE]

\* the states of /var/lib/kolla/config_files/config.json
FileAbsent == [state |-> "absent", text |-> Text("empty")]

FileUnreadable(text) == [state |-> "unreadable", text |-> text]

FileHolding(text) == [state |-> "readable", text |-> text]

\* the fixed paths of the program
RunCommand == <<"run_command">>
Configured == <<"configured">>

(* ------------------------- the modelled world ------------------------- *)

SrcFile == <<"src", "app.conf">>
SrcDir == <<"src", "conf.d">>
SrcGlob == <<"src", "*">>

DestFile == <<"etc", "app", "app.conf">>
DestDir == <<"etc", "app">>
DestFolder == <<"etc", "app", "">>
DestTree == <<"etc", "conf.d">>

P0640 == <<"0", "6", "4", "0">>
P0600 == <<"0", "6", "0", "0">>
P0755 == <<"0", "7", "5", "5">>

\* the orders in which os.listdir can name the entries of /src
ListdirOrders == { <<"app.conf", "conf.d">>, <<"conf.d", "app.conf">> }

FileNode(content, perm) ==
    [kind |-> "file", content |-> content, uid |-> 0, gid |-> 0,
     mode |-> ParsePerm(perm)]

Single(path, node) == [q \in {path} |-> node]

BaseFs == Overlay(Single(Root, NewDir), Single(<<"src">>, NewDir))

SrcFileFs == Single(SrcFile, FileNode("v1", <<"0", "6", "4", "4">>))

SrcDirFs ==
    Overlay(Overlay(Single(SrcDir, NewDir),
                    Single(Append(SrcDir, "a.conf"), FileNode("a", P0600))),
            Overlay(Single(Append(SrcDir, "sub"), NewDir),
                    Single(SrcDir \o <<"sub", "b.conf">>, FileNode("b", P0600))))

Nothing == [q \in {} |-> NewDir]

\* what /src holds when the container starts
SrcStates ==
    { Overlay(SrcFileFs, SrcDirFs), SrcFileFs, SrcDirFs, Nothing }

\* what is installed under /etc when the container starts: nothing,
\* /etc/app holding a stale app.conf, or a file at /etc/app
DestStates ==
    { Nothing,
      Overlay(Overlay(Single(<<"etc">>, NewDir), Single(DestDir, NewDir)),
              Single(DestFile, FileNode("old", P0600))),
      Overlay(Single(<<"etc">>, NewDir), Single(DestDir, FileNode("old", P0600))) }

InitialFs == { Overlay(BaseFs, Overlay(s, d)) : s \in SrcStates, d \in DestStates }

Entry(source, dest, owner, perm) ==
    [source |-> source, dest |-> dest, owner |-> owner, perm |-> perm]

OptionalEntry(source, dest, owner, perm) ==
    [source |-> source, dest |-> dest, owner |-> owner, perm |-> perm,
     optional |-> TRUE]

Manifest(entries) == [command |-> "run.sh", config_files |-> entries]

\* manifests validate_config accepts
ValidManifests ==
    { Manifest(<<Entry(SrcFile, DestFile, "app", P0640)>>),
      Manifest(<<Entry(SrcFile, DestFolder, "app", P0640)>>),
      Manifest(<<Entry(SrcDir, DestDir, "app", P0755)>>),
      Manifest(<<Entry(SrcDir, DestFolder, "app", P0755)>>),
      Manifest(<<Entry(SrcGlob, DestFolder, "app", P0640)>>),
      Manifest(<<OptionalEntry(SrcFile, DestFile, "app", P0640)>>),
      Manifest(<<OptionalEntry(SrcFile, DestFolder, "app", P0640)>>),
      Manifest(<<Entry(SrcFile, DestFile, "app", P0640),
                 Entry(SrcDir, DestTree, "app", P0755)>>),
      [command |-> "run.sh"] }

\* manifests validate_config rejects
InvalidManifests ==
    { [config_files |-> <<Entry(SrcFile, DestFile, "app", P0640)>>],
      Manifest(<<[dest |-> DestFile, owner |-> "app", perm |-> P0640]>>),
      Manifest(<<[source |-> SrcFile, owner |-> "app", perm |-> P0640]>>),
      Manifest(<<[source |-> SrcFile, dest |-> DestFile, perm |-> P0640]>>),
      Manifest(<<[source |-> SrcFile, dest |-> DestFile, owner |-> "app"]>>),
      Manifest(<<Entry(SrcFile, DestFile, "app", P0640),
                 [source |-> SrcDir, dest |-> DestTree, owner |-> "app",
                  optional |-> TRUE]>>) }

Manifests == ValidManifests \cup InvalidManifests

\* the values of KOLLA_CONFIG_STRATEGY; "unset" is the absent variable
Strategies == {"COPY_ALWAYS", "COPY_ONCE", "BOGUS", "unset"}

\* the contents and modes an independent modification gives a file
TamperContents == {"edited"}
TamperPerms == {P0600, P0640}

(* ------------------------------ state --------------------------------- *)

\* the invocations of the program that can be alive; Main is the one the
\* container entrypoint runs
Procs == {"main", "other"}
Main == "main"

VARIABLES
    fs,        \* the filesystem
    environ,   \* the value of KOLLA_CONFIG
    config_json, \* the state of /var/lib/kolla/config_files/config.json
    config,    \* the manifest the last load_config returned
    loaded,    \* per invocation: where load_config took the manifest from
    pc,        \* per invocation: "idle", "copy", "write", "mknod", "check", "done"
    mode,      \* per invocation: "apply" or "check" (the --check flag)
    strategy,  \* per invocation: the value of KOLLA_CONFIG_STRATEGY it read
    idx,       \* per invocation: the config_files entry it is at
    err,       \* per invocation: the exception that ended it, or NoError
    fs0,       \* per invocation: the filesystem when it started
    log,       \* per invocation: what it has done, in order
    hist,      \* the last three operations on entries and installed files
    runs,      \* invocations started
    tampers    \* independent modifications made

vars == <<fs, environ, config_json, config, loaded, pc, mode, strategy, idx,
          err, fs0, log, hist, runs, tampers>>

NotLoaded == [from |-> "none", file_read |-> FALSE]

Event(ev, i) == [ev |-> ev, i |-> i]

Op(op, i, path, e, pre, post) ==
    [op |-> op, i |-> i, path |-> path, err |-> e, pre |-> pre, post |-> post]

\* hist before anything was done
NoOp(f) == Op("none", 0, <<>>, NoError, f, f)

Push(h, r) == <<h[2], h[3], r>>

NEntries == Len(ConfigFiles(config))

EntryAt(i) == ConfigFile(ConfigFiles(config)[i])

\* no invocation is running and the last one applied the configuration:
\* the moment at which installed files drift
Applied ==
    /\ \A p \in Procs : pc[p] \in {"idle", "done"}
    /\ runs > 0 /\ mode[Main] = "apply" /\ err[Main] = NoError

\* every invocation that has ended has exited
Exited == [p \in Procs |-> "idle"]

\* the state before the first invocation, but for the filesystem and what
\* load_config will find
Fresh ==
    /\ config = Unloaded
    /\ loaded = [p \in Procs |-> NotLoaded]
    /\ pc = [p \in Procs |-> "idle"]
    /\ mode = [p \in Procs |-> "apply"]
    /\ strategy = [p \in Procs |-> "unset"]
    /\ idx = [p \in Procs |-> 1]
    /\ err = [p \in Procs |-> NoError]
    /\ fs0 = [p \in Procs |-> fs]
    /\ log = [p \in Procs |-> <<>>]
    /\ hist = <<NoOp(fs), NoOp(fs), NoOp(fs)>>
    /\ runs = 0
    /\ tampers = 0

\* the container is given its manifest in KOLLA_CONFIG
Init ==
    /\ fs \in InitialFs
    /\ environ \in {JsonText(m) : m \in Manifests}
    /\ config_json = FileAbsent
    /\ Fresh

(* ------------------------- the program's steps ------------------------ *)

\* execute_config_strategy with COPY_ONCE not testing the sentinel
Dispatch_OnceIgnoresSentinel(cfg, f, check, strat) ==
    IF ValidateConfig(cfg) # NoError
    THEN [pc |-> "done", err |-> ValidateConfig(cfg)]
    ELSE IF check
    THEN IF "config_files" \notin DOMAIN cfg
         THEN [pc |-> "done", err |-> "KeyError"]
         ELSE IF Len(cfg.config_files) = 0
         THEN [pc |-> "done", err |-> NoError]
         ELSE [pc |-> "check", err |-> NoError]
    ELSE IF strat = "COPY_ALWAYS" \/ strat = "COPY_ONCE"
    THEN [pc |-> IF Len(ConfigFiles(cfg)) = 0 THEN "write" ELSE "copy",
          err |-> NoError]
    ELSE [pc |-> "done", err |-> "BadConfigStrategy"]

\* execute_config_strategy with COPY_ALWAYS testing the sentinel as
\* COPY_ONCE does
Dispatch_AlwaysTestsSentinel(cfg, f, check, strat) ==
    IF ValidateConfig(cfg) # NoError
    THEN [pc |-> "done", err |-> ValidateConfig(cfg)]
    ELSE IF check
    THEN IF "config_files" \notin DOMAIN cfg
         THEN [pc |-> "done", err |-> "KeyError"]
         ELSE IF Len(cfg.config_files) = 0
         THEN [pc |-> "done", err |-> NoError]
         ELSE [pc |-> "check", err |-> NoError]
    ELSE IF strat \in {"COPY_ALWAYS", "COPY_ONCE"} /\ ~Exists(f, Configured)
    THEN [pc |-> IF Len(ConfigFiles(cfg)) = 0 THEN "write" ELSE "copy",
          err |-> NoError]
    ELSE IF strat \in {"COPY_ALWAYS", "COPY_ONCE"}
    THEN [pc |-> "done", err |-> NoError]
    ELSE [pc |-> "done", err |-> "BadConfigStrategy"]

\* execute_config_strategy with the final else copying instead of raising
Dispatch_UnknownStrategyCopies(cfg, f, check, strat) ==
    IF ValidateConfig(cfg) # NoError
    THEN [pc |-> "done", err |-> ValidateConfig(cfg)]
    ELSE IF check
    THEN IF "config_files" \notin DOMAIN cfg
         THEN [pc |-> "done", err |-> "KeyError"]
         ELSE IF Len(cfg.config_files) = 0
         THEN [pc |-> "done", err |-> NoError]
         ELSE [pc |-> "check", err |-> NoError]
    ELSE IF strat = "COPY_ONCE" /\ Exists(f, Configured)
    THEN [pc |-> "done", err |-> NoError]
    ELSE [pc |-> IF Len(ConfigFiles(cfg)) = 0 THEN "write" ELSE "copy",
          err |-> NoError]

\* execute_config_strategy with COPY_ONCE holding a lock: an invocation
\* that finds another one in its copy pass does not copy
Dispatch_OnceExcludes(cfg, f, check, strat) ==
    IF ValidateConfig(cfg) # NoError
    THEN [pc |-> "done", err |-> ValidateConfig(cfg)]
    ELSE IF check
    THEN IF "config_files" \notin DOMAIN cfg
         THEN [pc |-> "done", err |-> "KeyError"]
         ELSE IF Len(cfg.config_files) = 0
         THEN [pc |-> "done", err |-> NoError]
         ELSE [pc |-> "check", err |-> NoError]
    ELSE IF strat = "COPY_ONCE"
            /\ \E q \in Procs : pc[q] \in {"copy", "write", "mknod"}
    THEN [pc |-> "done", err |-> NoError]
    ELSE IF strat = "COPY_ALWAYS" \/ (strat = "COPY_ONCE" /\ ~Exists(f, Configured))
    THEN [pc |-> IF Len(ConfigFiles(cfg)) = 0 THEN "write" ELSE "copy",
          err |-> NoError]
    ELSE IF strat = "COPY_ONCE"
    THEN [pc |-> "done", err |-> NoError]
    ELSE [pc |-> "done", err |-> "BadConfigStrategy"]

\* where main() stands after load_config and the dispatch on --check, in
\* apply mode after execute_config_strategy has read the strategy and, for
\* COPY_ONCE, tested the sentinel: the position and the exception raised
Dispatch(cfg, f, check, strat) ==
    IF ValidateConfig(cfg) # NoError
    THEN [pc |-> "done", err |-> ValidateConfig(cfg)]
    ELSE IF check
    THEN IF "config_files" \notin DOMAIN cfg
         THEN [pc |-> "done", err |-> "KeyError"]
         ELSE IF Len(cfg.config_files) = 0
         THEN [pc |-> "done", err |-> NoError]
         ELSE [pc |-> "check", err |-> NoError]
    ELSE IF strat = "COPY_ALWAYS" \/ (strat = "COPY_ONCE" /\ ~Exists(f, Configured))
    THEN [pc |-> IF Len(ConfigFiles(cfg)) = 0 THEN "write" ELSE "copy",
          err |-> NoError]
    ELSE IF strat = "COPY_ONCE"
    THEN [pc |-> "done", err |-> NoError]
    ELSE [pc |-> "done", err |-> "BadConfigStrategy"]

\* main() up to the first ConfigFile operation: load_config, then the
\* dispatch; check mode never reads the strategy
Start(p, check, strat) ==
    /\ pc[p] \in {"idle", "done"}
    /\ runs < MaxRuns
    /\ check => strat = "unset"
    /\ runs' = runs + 1
    /\ mode' = [mode EXCEPT ![p] = IF check THEN "check" ELSE "apply"]
    /\ strategy' = [strategy EXCEPT ![p] = strat]
    /\ idx' = [idx EXCEPT ![p] = 1]
    /\ fs0' = [fs0 EXCEPT ![p] = fs]
    /\ log' = [log EXCEPT ![p] = <<>>]
    /\ LET l == LoadConfig(environ, config_json)
           d == Dispatch(l.config, fs, check, strat)
       IN  /\ config' = l.config
           /\ loaded' = [loaded EXCEPT ![p] =
                            [from |-> l.from, file_read |-> l.file_read]]
           /\ pc' = [pc EXCEPT ![p] = IF l.err # NoError THEN "done" ELSE d.pc]
           /\ err' = [err EXCEPT ![p] = IF l.err # NoError THEN l.err ELSE d.err]
    /\ UNCHANGED <<fs, environ, config_json, hist, tampers>>

\* copy_config creating the sentinel whether or not the copies succeeded
CopyStep_FailureStillConfigures(p, order) ==
    /\ pc[p] = "copy"
    /\ LET r == Copy(EntryAt(idx[p]), fs, order)
       IN  /\ fs' = r.fs
           /\ err' = [err EXCEPT ![p] = r.err]
           /\ pc' = [pc EXCEPT ![p] =
                        IF r.err # NoError
                        THEN (IF strategy[p] = "COPY_ONCE" THEN "mknod" ELSE "done")
                        ELSE IF idx[p] = NEntries THEN "write" ELSE "copy"]
           /\ hist' = Push(hist, Op("copy", idx[p], <<>>, r.err, fs, r.fs))
    /\ idx' = [idx EXCEPT ![p] = idx[p] + 1]
    /\ log' = [log EXCEPT ![p] = Append(log[p], Event("copy", idx[p]))]
    /\ UNCHANGED <<environ, config_json, config, loaded, mode, strategy, fs0, runs, tampers>>

\* copy_config: config_file.copy() of the next entry
CopyStep(p, order) ==
    /\ pc[p] = "copy"
    /\ LET r == Copy(EntryAt(idx[p]), fs, order)
       IN  /\ fs' = r.fs
           /\ err' = [err EXCEPT ![p] = r.err]
           /\ pc' = [pc EXCEPT ![p] =
                        IF r.err # NoError THEN "done"
                        ELSE IF idx[p] = NEntries THEN "write" ELSE "copy"]
           /\ hist' = Push(hist, Op("copy", idx[p], <<>>, r.err, fs, r.fs))
    /\ idx' = [idx EXCEPT ![p] = idx[p] + 1]
    /\ log' = [log EXCEPT ![p] = Append(log[p], Event("copy", idx[p]))]
    /\ UNCHANGED <<environ, config_json, config, loaded, mode, strategy, fs0, runs, tampers>>

\* copy_config: the command is written to /run_command
WriteCommand(p) ==
    /\ pc[p] = "write"
    /\ LET w == WriteFile(fs, RunCommand, config.command)
       IN  /\ fs' = w.fs
           /\ err' = [err EXCEPT ![p] = w.err]
           /\ pc' = [pc EXCEPT ![p] =
                        IF w.err = NoError /\ strategy[p] = "COPY_ONCE"
                        THEN "mknod" ELSE "done"]
    /\ log' = [log EXCEPT ![p] = Append(log[p], Event("write_command", 0))]
    /\ UNCHANGED <<environ, config_json, config, loaded, mode, strategy, idx, fs0, hist, runs, tampers>>

\* os.mknod('/configured'): EEXIST when the sentinel is there already
MkNod(p) ==
    /\ pc[p] = "mknod"
    /\ IF Exists(fs, Configured)
       THEN /\ fs' = fs
            /\ err' = [err EXCEPT ![p] = "OSError"]
       ELSE /\ fs' = Overlay(fs, Single(Configured, FileNode("", P0600)))
            /\ err' = [err EXCEPT ![p] = NoError]
    /\ pc' = [pc EXCEPT ![p] = "done"]
    /\ log' = [log EXCEPT ![p] = Append(log[p], Event("mknod", 0))]
    /\ UNCHANGED <<environ, config_json, config, loaded, mode, strategy, idx, fs0, hist, runs, tampers>>

\* execute_config_check going on to the next entry after a check() raised
CheckStep_ContinuesAfterFailure(p, order) ==
    /\ pc[p] = "check"
    /\ LET e == Check(EntryAt(idx[p]), fs, order)
       IN  /\ err' = [err EXCEPT ![p] = IF e # NoError THEN e ELSE err[p]]
           /\ pc' = [pc EXCEPT ![p] = IF idx[p] = NEntries THEN "done" ELSE "check"]
           /\ hist' = Push(hist, Op("check", idx[p], <<>>, e, fs, fs))
    /\ idx' = [idx EXCEPT ![p] = idx[p] + 1]
    /\ log' = [log EXCEPT ![p] = Append(log[p], Event("check", idx[p]))]
    /\ UNCHANGED <<fs, environ, config_json, config, loaded, mode, strategy,
                   fs0, runs, tampers>>

\* execute_config_check with a check() that installs what it finds missing
\* or different
CheckStep_Repairs(p, order) ==
    /\ pc[p] = "check"
    /\ LET e == Check(EntryAt(idx[p]), fs, order)
       IN  /\ err' = [err EXCEPT ![p] = e]
           /\ pc' = [pc EXCEPT ![p] = IF e # NoError \/ idx[p] = NEntries THEN "done" ELSE "check"]
           /\ fs' = IF e = "ConfigFileBadState"
                    THEN Copy(EntryAt(idx[p]), fs, order).fs ELSE fs
           /\ hist' = Push(hist, Op("check", idx[p], <<>>, e, fs, fs))
    /\ idx' = [idx EXCEPT ![p] = idx[p] + 1]
    /\ log' = [log EXCEPT ![p] = Append(log[p], Event("check", idx[p]))]
    /\ UNCHANGED <<environ, config_json, config, loaded, mode, strategy,
                   fs0, runs, tampers>>

\* execute_config_check: config_file.check() of the next entry
CheckStep(p, order) ==
    /\ pc[p] = "check"
    /\ LET e == Check(EntryAt(idx[p]), fs, order)
       IN  /\ err' = [err EXCEPT ![p] = e]
           /\ pc' = [pc EXCEPT ![p] =
                        IF e # NoError \/ idx[p] = NEntries THEN "done"
                        ELSE "check"]
           /\ hist' = Push(hist, Op("check", idx[p], <<>>, e, fs, fs))
    /\ idx' = [idx EXCEPT ![p] = idx[p] + 1]
    /\ log' = [log EXCEPT ![p] = Append(log[p], Event("check", idx[p]))]
    /\ UNCHANGED <<fs, environ, config_json, config, loaded, mode, strategy,
                   fs0, runs, tampers>>

(* ------------------------- the environment ---------------------------- *)

\* the installed files: the regular files under /etc
Installed(f) == {q \in DOMAIN f : IsPrefix(<<"etc">>, q) /\ f[q].kind = "file"}

\* an installed file is rewritten behind the program's back
TamperContent(q, c) ==
    /\ Applied
    /\ tampers < MaxTamper
    /\ runs < MaxRuns      \* an invocation can still follow
    /\ q \in Installed(fs)
    /\ fs[q].content # c
    /\ fs' = [fs EXCEPT ![q].content = c]
    /\ hist' = Push(hist, Op("content", 0, q, NoError, fs, fs'))
    /\ tampers' = tampers + 1
    /\ pc' = Exited
    /\ UNCHANGED <<environ, config_json, config, loaded, mode, strategy, idx, err, fs0, log, runs>>

\* the permission bits of an installed file are changed behind the
\* program's back
TamperPerm(q, perm) ==
    /\ Applied
    /\ tampers < MaxTamper
    /\ runs < MaxRuns      \* an invocation can still follow
    /\ q \in Installed(fs)
    /\ fs[q].mode # ParsePerm(perm)
    /\ fs' = Chmod(fs, q, ParsePerm(perm))
    /\ hist' = Push(hist, Op("chmod", 0, q, NoError, fs, fs'))
    /\ tampers' = tampers + 1
    /\ pc' = Exited
    /\ UNCHANGED <<environ, config_json, config, loaded, mode, strategy, idx, err, fs0, log, runs>>

(* --------------------------- specification ---------------------------- *)

\* one invocation at a time, as the container entrypoint runs them
Next ==
    \/ \E check \in BOOLEAN, strat \in Strategies : Start(Main, check, strat)
    \/ \E order \in ListdirOrders : CopyStep(Main, order)
    \/ WriteCommand(Main)
    \/ MkNod(Main)
    \/ \E order \in ListdirOrders : CheckStep(Main, order)
    \/ \E q \in DOMAIN fs, c \in TamperContents : TamperContent(q, c)
    \/ \E q \in DOMAIN fs, perm \in TamperPerms : TamperPerm(q, perm)

Spec == Init /\ [][Next]_vars

(* ------------------------ reading the state --------------------------- *)

\* the invocation under observation has started and has not exited
(* ------------------- invocations that load the manifest ----------------- *)

\* the manifest KOLLA_CONFIG holds and the one config.json holds
EnvManifest == Manifest(<<Entry(SrcFile, DestFile, "app", P0640)>>)

FileManifest == Manifest(<<Entry(SrcFile, DestFolder, "app", P0640)>>)

\* the values of KOLLA_CONFIG: not set, the empty string, a text that is
\* not JSON, the JSON null, a manifest
EnvValues ==
    { EnvUnset, Text("empty"), Text("garbage"), Text("null"),
      JsonText(EnvManifest) }

\* the states of config.json: missing, not readable, not JSON, a manifest
FileValues ==
    { FileAbsent, FileUnreadable(JsonText(FileManifest)),
      FileHolding(Text("garbage")), FileHolding(JsonText(FileManifest)) }

\* the source file exists, whatever is installed
LoadFs == { Overlay(BaseFs, Overlay(SrcFileFs, d)) : d \in DestStates }

InitLoad ==
    /\ fs \in LoadFs
    /\ environ \in EnvValues
    /\ config_json \in FileValues
    /\ Fresh

SpecLoad == InitLoad /\ [][Next]_vars

(* ---------------- two invocations running at the same time -------------- *)

\* the container is given a manifest that validate_config accepts
InitConc ==
    /\ fs \in InitialFs
    /\ environ \in {JsonText(m) : m \in ValidManifests}
    /\ config_json = FileAbsent
    /\ Fresh

\* either process starts a COPY_ONCE invocation or takes its next step,
\* whatever the other one is doing
NextConc ==
    \E p \in Procs :
        \/ Start(p, FALSE, "COPY_ONCE")
        \/ \E order \in ListdirOrders : CopyStep(p, order)
        \/ WriteCommand(p)
        \/ MkNod(p)

SpecConc == InitConc /\ [][NextConc]_vars

InRun == pc[Main] # "idle"

Finished == pc[Main] = "done"

ApplyRun(strat) == InRun /\ mode[Main] = "apply" /\ strategy[Main] = strat
                   /\ ValidateConfig(config) = NoError

\* copy() of every entry in manifest order, then the command file
RECURSIVE CopyEvents(_)
CopyEvents(n) == IF n = 0 THEN <<>> ELSE Append(CopyEvents(n - 1), Event("copy", n))

FullPass == Append(CopyEvents(NEntries), Event("write_command", 0))

Wrote(ev) == \E k \in 1..Len(log[Main]) : log[Main][k].ev = ev

\* the last operation on an entry or an installed file, and the two before
LastOp == hist[3]
PrevOp == hist[2]
FirstOp == hist[1]

\* the source of entry cf matches nothing in filesystem f
MatchesNothing(cf, f) == \A order \in ListdirOrders : Glob(f, cf.source, order) = <<>>

\* what is installed at or below the destination area
DestView(f) == [q \in {x \in DOMAIN f : IsPrefix(<<"etc">>, x)} |-> f[q]]

\* the file a regular-file source is installed as
InstalledAs(cf) ==
    IF EndsWithSep(cf.dest) THEN Join(cf.dest, <<BaseName(cf.source)>>)
    ELSE cf.dest

(* ------------------------------ claims -------------------------------- *)

\* C1: under COPY_ONCE an invocation that starts with the sentinel
\* /configured absent and completes has run copy() on every entry in
\* manifest order, written the command file and created the sentinel; an
\* invocation that starts with the sentinel present does nothing: it runs
\* no copy(), does not write the command file, and the filesystem stays as
\* it was when the invocation started.
C1_CopyOnce ==
    ApplyRun("COPY_ONCE") =>
        IF Exists(fs0[Main], Configured)
        THEN Finished /\ err[Main] = NoError /\ log[Main] = <<>> /\ fs = fs0[Main]
        ELSE (Finished /\ err[Main] = NoError) =>
                /\ log[Main] = Append(FullPass, Event("mknod", 0))
                /\ Exists(fs, Configured)

\* C1 witness: a second invocation under COPY_ONCE that found the sentinel
\* an earlier COPY_ONCE pass created, with files installed
C1_Witness ==
    /\ ApplyRun("COPY_ONCE") /\ Finished
    /\ Exists(fs0[Main], Configured)
    /\ runs = 2 /\ NEntries = 2
    /\ LastOp.op = "copy" /\ LastOp.err = NoError

\* C2 (as claimed): when copy() of an entry whose source exists has
\* succeeded and copy() of the same entry is called again with nothing done
\* in between to the sources or the destination, the second call succeeds
\* and leaves the destination as the first call left it.
C2_CopyTwice ==
    (/\ NEntries = 1
     /\ PrevOp.op = "copy" /\ LastOp.op = "copy"
     /\ ~MatchesNothing(EntryAt(1), PrevOp.pre)
     /\ PrevOp.err = NoError)
    => /\ LastOp.err = NoError
       /\ DestView(LastOp.post) = DestView(PrevOp.post)

\* C3 (as claimed): copy() of an optional entry whose source matches nothing
\* returns without raising and leaves the filesystem as it was.
C3_OptionalNoOp ==
    (/\ LastOp.op = "copy"
     /\ EntryAt(LastOp.i).optional
     /\ MatchesNothing(EntryAt(LastOp.i), LastOp.pre))
    => /\ LastOp.err = NoError
       /\ LastOp.post = LastOp.pre

\* C4: copy() of a required entry whose source matches nothing raises
\* SourceFileNotFound; and an apply run of a manifest that holds such an
\* entry, at whatever position, never writes the command file.
C4_RequiredMissing ==
    /\ (/\ LastOp.op = "copy"
        /\ ~EntryAt(LastOp.i).optional
        /\ MatchesNothing(EntryAt(LastOp.i), LastOp.pre))
       => LastOp.err = "SourceFileNotFound"
    /\ (/\ InRun /\ mode[Main] = "apply"
        /\ ValidateConfig(config) = NoError
        /\ \E i \in 1..NEntries :
              ~EntryAt(i).optional /\ MatchesNothing(EntryAt(i), fs0[Main]))
       => /\ ~Wrote("write_command")
          /\ pc[Main] \notin {"write", "mknod"}
          /\ Exists(fs, RunCommand) = Exists(fs0[Main], RunCommand)
          /\ Exists(fs, RunCommand) => Stat(fs, RunCommand) = Stat(fs0[Main], RunCommand)

\* C4 witness: the second entry of a manifest has no source; its copy()
\* raised after the first entry was installed
C4_Witness ==
    /\ ApplyRun("COPY_ALWAYS") /\ Finished
    /\ NEntries = 2
    /\ log[Main] = <<Event("copy", 1), Event("copy", 2)>>
    /\ LastOp.op = "copy" /\ LastOp.i = 2
    /\ MatchesNothing(EntryAt(2), LastOp.pre)
    /\ err[Main] = "SourceFileNotFound"

\* C5: with a strategy that is neither COPY_ALWAYS nor COPY_ONCE (the
\* variable unset included) execute_config_strategy raises
\* BadConfigStrategy and has done nothing: no copy(), no command file, no
\* sentinel, the filesystem as it was.
C5_BadStrategy ==
    \A strat \in Strategies \ {"COPY_ALWAYS", "COPY_ONCE"} :
        ApplyRun(strat) =>
            /\ Finished
            /\ err[Main] = "BadConfigStrategy"
            /\ log[Main] = <<>>
            /\ fs = fs0[Main]

\* C5 witness: the strategy is unset in a container whose first invocation
\* installed files
C5_Witness ==
    /\ ApplyRun("unset") /\ Finished
    /\ runs = 2
    /\ LastOp.op = "copy" /\ LastOp.err = NoError
    /\ err[Main] = "BadConfigStrategy"

\* the last three operations were: copy() of the only entry, which
\* succeeded; the modification `kind` of a file that copy() installed; and
\* check() of the entry
CopyTamperCheck(kind) ==
    /\ NEntries = 1
    /\ FirstOp.op = "copy" /\ FirstOp.err = NoError
    /\ PrevOp.op = kind
    /\ PrevOp.path \in DOMAIN FirstOp.post
    /\ IsPrefix(Canon(EntryAt(1).dest), PrevOp.path)
    /\ LastOp.op = "check"

\* C6 (as claimed): after copy() of an entry succeeded and the content of
\* the file it installed was modified, check() of the entry raises
\* ConfigFileBadState.
C6_ContentDrift ==
    CopyTamperCheck("content") => LastOp.err = "ConfigFileBadState"

\* C7 (as claimed): after copy() of an entry succeeded and the permission
\* bits of the file it installed were changed to other than the declared
\* perm, the content staying that of the source, check() of the entry
\* raises ConfigFileBadState.
C7_PermDrift ==
    (/\ CopyTamperCheck("chmod")
     /\ PrevOp.post[PrevOp.path].mode # ParsePerm(EntryAt(1).perm))
    => LastOp.err = "ConfigFileBadState"

\* C8: validate_config raises ConfigFileError for a manifest without the
\* command key and for a manifest with an entry that lacks source, dest,
\* owner or perm, and the invocation ends there; for every other manifest
\* it raises nothing (optional may be absent).
C8_Validate ==
    InRun =>
        LET entries == IF "config_files" \in DOMAIN config
                       THEN config.config_files ELSE <<>>
            rejected ==
                \/ "command" \notin DOMAIN config
                \/ \E i \in 1..Len(entries) :
                      \E k \in {"source", "dest", "owner", "perm"} :
                          k \notin DOMAIN entries[i]
        IN  IF rejected
            THEN Finished /\ err[Main] = "ConfigFileError" /\ log[Main] = <<>>
                 /\ fs = fs0[Main]
            ELSE err[Main] # "ConfigFileError"

\* C8 witness: a manifest with command whose second entry lacks perm was
\* rejected
C8_Witness ==
    /\ InRun /\ Finished
    /\ "command" \in DOMAIN config
    /\ NEntries = 2
    /\ "perm" \notin DOMAIN ConfigFiles(config)[2]
    /\ err[Main] = "ConfigFileError"

\* C9 (as claimed): under COPY_ALWAYS, for a manifest with one required
\* entry whose source is an existing regular file and whose dest ends with
\* a separator, the run succeeds and leaves dest/<basename> with the
\* content of the source, owner and group named as the declared owner, the
\* declared perm, and /run_command holding the command, whether the dest
\* directory existed before the run or not.
C9_CopyIntoFolder ==
    (/\ ApplyRun("COPY_ALWAYS") /\ Finished
     /\ NEntries = 1
     /\ ~EntryAt(1).optional
     /\ ~HasMagic(EntryAt(1).source)
     /\ Exists(fs0[Main], EntryAt(1).source)
     /\ ~IsDir(fs0[Main], EntryAt(1).source)
     /\ EndsWithSep(EntryAt(1).dest)
     /\ (IsDir(fs0[Main], EntryAt(1).dest)
            \/ Canon(EntryAt(1).dest) \notin DOMAIN fs0[Main]))
    => LET cf == EntryAt(1)
           target == InstalledAs(cf)
       IN  /\ err[Main] = NoError
           /\ Exists(fs, target) /\ ~IsDir(fs, target)
           /\ Stat(fs, target).content = Stat(fs, cf.source).content
           /\ GetPwUidName(Stat(fs, target).uid) = cf.owner
           /\ GetGrGidName(Stat(fs, target).gid) = cf.owner
           /\ ActualPerm(Stat(fs, target)) = cf.perm
           /\ Exists(fs, RunCommand)
           /\ Stat(fs, RunCommand).content = config.command

\* log is an initial part of full
IsPrefixSeq(a, b) == Len(a) <= Len(b) /\ SubSeq(b, 1, Len(a)) = a

\* C10: under COPY_ALWAYS an invocation runs copy() on the entries in
\* manifest order and writes the command file only after the last one; a
\* completed invocation has done all of it, whether the sentinel
\* /configured exists or not; the sentinel is neither created nor removed.
C10_CopyAlways ==
    ApplyRun("COPY_ALWAYS") =>
        /\ IsPrefixSeq(log[Main], FullPass)
        /\ (Finished /\ err[Main] = NoError) => log[Main] = FullPass
        /\ pc[Main] # "mknod"
        /\ Exists(fs, Configured) = Exists(fs0[Main], Configured)

\* C10 witness: a COPY_ALWAYS invocation that started with the sentinel
\* present has copied both entries and written the command file
C10_Witness ==
    /\ ApplyRun("COPY_ALWAYS") /\ Finished
    /\ Exists(fs0[Main], Configured)
    /\ NEntries = 2
    /\ log[Main] = FullPass
    /\ err[Main] = NoError

(* ------------------------------- C11 ---------------------------------- *)

\* KOLLA_CONFIG is set and not the empty string
EnvGiven == environ.form \notin {"unset", "empty"}

\* C11: load_config takes the manifest from KOLLA_CONFIG when the variable
\* is present and non-empty, and then config.json is not read; when the
\* variable is absent or empty, config.json is read.
C11_EnvPrecedence ==
    InRun =>
        /\ EnvGiven => loaded[Main].from = "env" /\ ~loaded[Main].file_read
        /\ ~EnvGiven => loaded[Main].from = "file" /\ loaded[Main].file_read

(* ------------------------------- C12 ---------------------------------- *)

\* KOLLA_CONFIG is set to a text that is not JSON
EnvNotJson == environ.form \in {"empty", "garbage"}

\* load_config turns to config.json
FileNeeded == environ.form \in {"unset", "null"}

FileNotReadable == FileNeeded /\ config_json.state # "readable"

FileNotJson ==
    /\ FileNeeded
    /\ config_json.state = "readable"
    /\ config_json.text.form \in {"empty", "garbage"}

\* C12 as stated: load_config fails with ConfigParseError when KOLLA_CONFIG
\* is not valid JSON, when config.json cannot be read and when config.json
\* is not valid JSON, and returns no manifest in these cases.
C12_ConfigParseError ==
    InRun /\ (EnvNotJson \/ FileNotReadable \/ FileNotJson) =>
        /\ Finished
        /\ err[Main] = "ConfigParseError"
        /\ config = Unloaded

\* C12, amended: in these cases load_config returns no manifest and the
\* invocation ends without touching the filesystem; the exception is
\* ValueError for a text that is not JSON and IOError for a config.json
\* that cannot be read.
C12_LoadError ==
    InRun /\ (EnvNotJson \/ FileNotReadable \/ FileNotJson) =>
        /\ Finished
        /\ config = Unloaded
        /\ log[Main] = <<>>
        /\ fs = fs0[Main]
        /\ EnvNotJson \/ FileNotJson => err[Main] = "ValueError"
        /\ FileNotReadable => err[Main] = "IOError"

\* a second invocation has ended on IOError: KOLLA_CONFIG gives no
\* manifest and config.json cannot be opened
C12_Witness ==
    /\ Finished
    /\ runs = 2
    /\ FileNotReadable
    /\ err[Main] = "IOError"
    /\ config = Unloaded

(* ------------------------------- C13 ---------------------------------- *)

\* a COPY_ONCE run has ended on an exception
FailedOnce == ApplyRun("COPY_ONCE") /\ Finished /\ err[Main] # NoError

\* the run that failed left no sentinel and did not write the command file
FailedOnceLeavesNoSentinel ==
    FailedOnce =>
        /\ ~Exists(fs, Configured)
        /\ ~Wrote("write_command")
        /\ Exists(fs, RunCommand) = Exists(fs0[Main], RunCommand)
        /\ Exists(fs, RunCommand) => fs[RunCommand] = fs0[Main][RunCommand]

\* the COPY_ONCE invocation after it starts the copy pass again
RetryCopies ==
    FailedOnce /\ runs' = runs + 1 /\ mode'[Main] = "apply"
               /\ strategy'[Main] = "COPY_ONCE"
        => pc'[Main] = "copy" /\ idx'[Main] = 1

\* the step that creates the sentinel ends a full pass: every copy() in
\* manifest order, then the write of the command file
SentinelAfterFullPass ==
    ~Exists(fs, Configured) /\ Exists(fs', Configured) =>
        /\ strategy[Main] = "COPY_ONCE"
        /\ log[Main] = FullPass
        /\ Exists(fs, RunCommand) /\ fs[RunCommand].content = config.command
        /\ log'[Main] = Append(FullPass, Event("mknod", 0))

\* C13: under COPY_ONCE the sentinel is created only after every copy() has
\* completed and the command file is written; a run in which a copy()
\* raises ends with the sentinel absent and the command file unwritten, and
\* the next COPY_ONCE invocation copies again; the filesystem starts without
\* the sentinel and every step that makes it present follows a full pass.
C13_SentinelLast ==
    /\ (runs = 0 => ~Exists(fs, Configured))
    /\ []FailedOnceLeavesNoSentinel
    /\ [][RetryCopies]_vars
    /\ [][SentinelAfterFullPass]_vars

\* a COPY_ONCE run has created the sentinel after an earlier run had failed
\* in copy() of the same entry
C13_Witness ==
    /\ ApplyRun("COPY_ONCE")
    /\ Finished
    /\ runs = 2
    /\ NEntries = 1
    /\ Exists(fs, Configured)
    /\ ~Exists(fs0[Main], Configured)
    /\ PrevOp.op = "copy" /\ PrevOp.err # NoError
    /\ LastOp.op = "copy" /\ LastOp.err = NoError

(* ------------------------------- C14 ---------------------------------- *)

\* C14: check() of a required entry whose source matches something and
\* whose destination does not exist raises ConfigFileBadState.
C14_MissingDest ==
    /\ LastOp.op = "check"
    /\ ~EntryAt(LastOp.i).optional
    /\ ~MatchesNothing(EntryAt(LastOp.i), LastOp.pre)
    /\ ~Exists(LastOp.pre, EntryAt(LastOp.i).dest)
    => LastOp.err = "ConfigFileBadState"

(* ------------------------------- C15 ---------------------------------- *)

\* the path of an item of the source tree mirrored under dest
Mirrored(source, dest, item) ==
    Join(dest, SubSeq(item, Len(source) + 1, Len(item)))

\* the items _cmp_dir visits for a directory source in filesystem f
ItemsBelow(f, source) ==
    LET items == WalkItems(f, <<Resolve(f, source).path>>)
    IN  {items[k] : k \in 1..Len(items)}

\* C15: the directory comparison of check() compares every subdirectory
\* and file under the source with the destination path that mirrors its
\* relative path under dest.
C15_MirroredPaths ==
    LastOp.op = "check" =>
        \A order \in ListdirOrders :
            LET sources == Glob(LastOp.pre, EntryAt(LastOp.i).source, order)
            IN  \A k \in 1..Len(sources) :
                    IsDir(LastOp.pre, sources[k]) =>
                        \A item \in ItemsBelow(LastOp.pre, sources[k]) :
                            DestFullPath(sources[k], EntryAt(LastOp.i).dest, item)
                                = Mirrored(sources[k], EntryAt(LastOp.i).dest, item)

(* ------------------------------- C16 ---------------------------------- *)

\* a check run of a manifest that has entries
CheckRun ==
    /\ InRun
    /\ mode[Main] = "check"
    /\ ValidateConfig(config) = NoError
    /\ NEntries > 0

\* check() of the entries 1..n in manifest order
RECURSIVE CheckEvents(_)
CheckEvents(n) == IF n = 0 THEN <<>> ELSE Append(CheckEvents(n - 1), Event("check", n))

\* C16: the check runner calls check() on the entries in manifest order
\* and stops at the first one that raises: it raises that error and calls
\* check() on no later entry.
C16_FailFast ==
    CheckRun =>
        /\ IsPrefixSeq(log[Main], CheckEvents(NEntries))
        /\ err[Main] # NoError => Finished
        /\ Finished /\ err[Main] = NoError => log[Main] = CheckEvents(NEntries)
        /\ Len(log[Main]) >= 1 =>
               /\ LastOp.op = "check"
               /\ LastOp.i = Len(log[Main])
               /\ LastOp.err = err[Main]
        /\ Len(log[Main]) >= 2 =>
               /\ PrevOp.op = "check"
               /\ PrevOp.i = Len(log[Main]) - 1
               /\ PrevOp.err = NoError

\* check() of the first of two entries raised and the run ended there
C16_Witness ==
    /\ CheckRun
    /\ Finished
    /\ NEntries = 2
    /\ log[Main] = <<Event("check", 1)>>
    /\ err[Main] # NoError

(* ------------------------------- C17 ---------------------------------- *)

\* C17: a check run, whether it succeeds or raises, changes nothing in the
\* filesystem: sources, destinations, the command file and the sentinel
\* are as they were when it started.
C17_CheckReadOnly ==
    InRun /\ mode[Main] = "check" => fs = fs0[Main]

\* a check run has reported the drift of an installed file and ended
C17_Witness ==
    /\ CheckRun
    /\ Finished
    /\ tampers > 0
    /\ err[Main] = "ConfigFileBadState"
    /\ LastOp.op = "check"
    /\ fs = fs0[Main]

(* ------------------------------- C18 ---------------------------------- *)

\* invocation p runs COPY_ONCE and found no sentinel when it started
SawNoSentinel(p) ==
    /\ pc[p] # "idle"
    /\ mode[p] = "apply"
    /\ strategy[p] = "COPY_ONCE"
    /\ ValidateConfig(config) = NoError
    /\ ~Exists(fs0[p], Configured)

\* invocation p has run copy() on every entry and written the command file
DidFullPass(p) == IsPrefixSeq(FullPass, log[p])

\* C18: COPY_ONCE has no mutual exclusion around the sentinel: an
\* invocation that finds the sentinel absent goes into the copy pass
\* whatever another invocation is doing at the time, so two invocations
\* that both find it absent both perform the full copy pass.
C18_NoMutualExclusion ==
    \A p \in Procs :
        SawNoSentinel(p) =>
            /\ log[p] = <<>> => pc[p] \in {"copy", "write"}
            /\ pc[p] = "done" /\ err[p] = NoError => DidFullPass(p)

\* both invocations found the sentinel absent and both have performed the
\* full copy pass
C18_Witness ==
    /\ NEntries >= 1
    /\ \A p \in Procs : SawNoSentinel(p) /\ DidFullPass(p)

(* ------------------------------- C19 ---------------------------------- *)

\* C19: when copy() of an entry with a plain source path (a regular file
\* with an exact or trailing-separator dest, or a directory) has succeeded
\* and nothing has touched source or destination since, check() of the
\* same entry raises no error.
C19_RoundTrip ==
    /\ NEntries = 1
    /\ PrevOp.op = "copy" /\ PrevOp.i = 1 /\ PrevOp.err = NoError
    /\ LastOp.op = "check" /\ LastOp.i = 1
    /\ ~HasMagic(EntryAt(1).source)
    /\ ~MatchesNothing(EntryAt(1), PrevOp.pre)
    => LastOp.err = NoError

(* ------------------------------- C20 ---------------------------------- *)

\* the manifest has a command and no config_files key
NoConfigFiles ==
    /\ InRun
    /\ ValidateConfig(config) = NoError
    /\ "config_files" \notin DOMAIN config

\* C20: a manifest with a command and no config_files key is accepted in
\* both modes: an apply run copies nothing and writes the command file, and
\* a check run ends without an error.
C20_NoConfigFiles ==
    NoConfigFiles /\ Finished =>
        /\ err[Main] # "ConfigFileError"
        /\ mode[Main] = "apply" /\ strategy[Main] = "COPY_ALWAYS" =>
               /\ err[Main] = NoError
               /\ log[Main] = <<Event("write_command", 0)>>
               /\ fs[RunCommand].content = config.command
        /\ mode[Main] = "check" => err[Main] = NoError /\ fs = fs0[Main]

=============================================================================
